---- MODULE Spec2Model ----
(***************************************************************************)
(* PromptSync workflow core (src/src/workflow/chain_builder.py): the       *)
(* ChainBuilder, the step variants, the {{variable}} resolver the steps    *)
(* use and the Workflow.run loop; and VariableResolver.resolve of          *)
(* src/src/utils/shared.py.                                                *)
(*                                                                         *)
(* Spec is a built Workflow and its runs.  ResolverSpec is one call of a   *)
(* resolver on a drawn text and context, ConditionSpec one call of         *)
(* ConditionalStep.execute, BuilderSpec a ChainBuilder and the calls made  *)
(* on it.  Each specification leaves the variables of the others at rest.  *)
(*                                                                         *)
(* Texts are sequences of symbols.  A symbol is either one of the marks    *)
(* the regular expressions of the program look at ("{{", "}}", ".", " ",   *)
(* the backslash, the comparison characters) or an atom: a run of other    *)
(* characters such as a step id, a key or a word.                          *)
(*                                                                         *)
(* Python values are records [ty, s, n, m]: ty the Python type, s the text *)
(* str() gives for a scalar, n the number in tenths (8.0 is 80) and m the  *)
(* mapping of a dict.                                                      *)
(***************************************************************************)
EXTENDS Integers, Sequences, FiniteSets, TLC

(* ----------------------------- bounds ---------------------------------- *)

\* longest step list a builder accumulates
MaxSteps == 2

\* number of times run() is called on one Workflow
MaxRuns == 2

(* ----------------------------- values ---------------------------------- *)

EmptyMap == [k \in {} |-> 0]

NoneVal == [ty |-> "none", s |-> <<"None">>, n |-> 0, m |-> EmptyMap]

StrVal(text) == [ty |-> "str", s |-> text, n |-> 0, m |-> EmptyMap]

BoolVal(b) == [ty |-> "bool", s |-> IF b THEN <<"True">> ELSE <<"False">>,
               n |-> IF b THEN 10 ELSE 0, m |-> EmptyMap]

IntVal(k) == [ty |-> "int", s |-> <<ToString(k)>>, n |-> 10 * k, m |-> EmptyMap]

\* a float given in tenths: FloatVal(80) is 8.0, printed "8.0"
FloatVal(t) == [ty |-> "float", s |-> <<ToString(t \div 10), ".", ToString(t % 10)>>,
                n |-> t, m |-> EmptyMap]

DictVal(map) == [ty |-> "dict", s |-> <<>>, n |-> 0, m |-> map]

\* Python truthiness: bool(v)
Truthy(v) ==
    CASE v.ty = "none" -> FALSE
      [] v.ty = "bool" -> v.n # 0
      [] v.ty = "int" -> v.n # 0
      [] v.ty = "float" -> v.n # 0
      [] v.ty = "str" -> v.s # <<>>
      [] v.ty = "dict" -> DOMAIN v.m # {}
      [] OTHER -> TRUE

\* str(v): the text of a scalar; a dict prints as one atom that stands for
\* its braces and items ("{}" when empty)
Str(v) ==
    IF v.ty = "dict"
    THEN (IF DOMAIN v.m = {} THEN <<"{}">> ELSE <<"{dict}">>)
    ELSE v.s

\* dict.get(key, default) and dict[key] = value
DictGet(map, key, default) == IF key \in DOMAIN map THEN map[key] ELSE default

DictSet(map, key, value) ==
    [k \in DOMAIN map \cup {key} |-> IF k = key THEN value ELSE map[k]]

(* --------------------- VariableResolver (mixin) ------------------------ *)

\* least index j >= from with text[j] = sym, 0 when there is none
IndexFrom(text, sym, from) ==
    LET hits == {j \in from..Len(text) : text[j] = sym}
    IN IF hits = {} THEN 0 ELSE CHOOSE j \in hits : \A k \in hits : j <= k

RECURSIVE LStrip(_)
LStrip(text) ==
    IF text # <<>> /\ Head(text) = " " THEN LStrip(Tail(text)) ELSE text

RECURSIVE RStrip(_)
RStrip(text) ==
    IF text # <<>> /\ text[Len(text)] = " "
    THEN RStrip(SubSeq(text, 1, Len(text) - 1))
    ELSE text

\* str.strip()
Strip(text) == RStrip(LStrip(text))

\* str.split('.'): the sequence of the parts between the dots
RECURSIVE Split(_)
Split(text) ==
    LET d == IndexFrom(text, ".", 1)
    IN IF d = 0 THEN <<text>>
       ELSE <<SubSeq(text, 1, d - 1)>> \o Split(SubSeq(text, d + 1, Len(text)))

\* a part names a key when it is one atom; any other part (empty, or with
\* blanks or braces inside) is a string no mapping of the program holds
PartIsKey(part, map) == Len(part) = 1 /\ part[1] \in DOMAIN map

\* the walk of replacer: result = result.get(part, {}) for each part.
\* .get on a value that is no dict raises AttributeError
RECURSIVE Walk(_, _)
Walk(result, parts) ==
    IF parts = <<>> THEN [raised |-> FALSE, val |-> result]
    ELSE IF result.ty # "dict" THEN [raised |-> TRUE, val |-> result]
    ELSE Walk(IF PartIsKey(Head(parts), result.m)
              THEN result.m[Head(parts)[1]] ELSE DictVal(EmptyMap),
              Tail(parts))

\* str(result) if result else match.group(0)
ReplacerResult(result, matched) == IF Truthy(result) THEN Str(result) ELSE matched

ReplacerOf(w, matched) ==
    IF w.raised THEN [raised |-> TRUE, s |-> matched]
    ELSE [raised |-> FALSE, s |-> ReplacerResult(w.val, matched)]

\* replacer(match): inner is group(1), matched is group(0)
replacer(inner, matched, context) ==
    ReplacerOf(Walk(DictVal(context), Split(Strip(inner))), matched)

\* the text re.sub builds: what precedes the match, its replacement, the rest
Join(before, r, rest) ==
    IF r.raised \/ rest.raised THEN [raised |-> TRUE, s |-> <<>>]
    ELSE [raised |-> FALSE, s |-> before \o r.s \o rest.s]

\* re.sub(r'{{(.*?)}}', replacer, value) from position from on: the leftmost
\* "{{" that has a "}}" after it (at p), closed by the first such "}}" (at q)
RECURSIVE ReSub(_, _, _)
ReSubMatch(text, context, from, p, q) ==
    IF q = 0 THEN [raised |-> FALSE, s |-> SubSeq(text, from, Len(text))]
    ELSE Join(SubSeq(text, from, p - 1),
              replacer(SubSeq(text, p + 1, q - 1), SubSeq(text, p, q), context),
              ReSub(text, context, q + 1))

ReSubAt(text, context, from, p) ==
    ReSubMatch(text, context, from, p,
               IF p = 0 THEN 0 ELSE IndexFrom(text, "}}", p + 1))

ReSub(text, context, from) == ReSubAt(text, context, from, IndexFrom(text, "{{", from))

ResolvedStr(r) == [raised |-> r.raised, val |-> StrVal(r.s)]

\* _resolve_variable(value, context): a value that is no str is returned as
\* it is
_resolve_variable(value, context) ==
    IF value.ty # "str" THEN [raised |-> FALSE, val |-> value]
    ELSE ResolvedStr(ReSub(value.s, context, 1))

(* ------------- VariableResolver.resolve (utils/shared.py) -------------- *)

\* the loop of resolve's replacer: a value that is no dict ends the walk
\* (found is FALSE and the occurrence is returned as it stands)
RECURSIVE ResolveWalk(_, _)
ResolveWalk(result, parts) ==
    IF parts = <<>> THEN [found |-> TRUE, val |-> result]
    ELSE IF result.ty # "dict" THEN [found |-> FALSE, val |-> result]
    ELSE ResolveWalk(IF PartIsKey(Head(parts), result.m)
                     THEN result.m[Head(parts)[1]] ELSE DictVal(EmptyMap),
                     Tail(parts))

\* return str(result) if result else match.group(0)
ResolveResult(w, matched) ==
    IF w.found /\ Truthy(w.val) THEN Str(w.val) ELSE matched

\* replacer(match) of resolve
resolve_replacer(inner, matched, context) ==
    ResolveResult(ResolveWalk(DictVal(context), Split(Strip(inner))), matched)

\* re.sub(pattern, replacer, text) of resolve, from position from on
RECURSIVE ResolveSub(_, _, _)
ResolveSubMatch(text, context, from, p, q) ==
    IF q = 0 THEN SubSeq(text, from, Len(text))
    ELSE SubSeq(text, from, p - 1)
         \o resolve_replacer(SubSeq(text, p + 1, q - 1), SubSeq(text, p, q), context)
         \o ResolveSub(text, context, q + 1)

ResolveSubAt(text, context, from, p) ==
    ResolveSubMatch(text, context, from, p,
                    IF p = 0 THEN 0 ELSE IndexFrom(text, "}}", p + 1))

ResolveSub(text, context, from) ==
    ResolveSubAt(text, context, from, IndexFrom(text, "{{", from))

\* a resolve that also strips the blanks around the text
resolve_stripped(text, context) ==
    IF text.ty # "str" THEN text ELSE StrVal(Strip(ResolveSub(text.s, context, 1)))

\* VariableResolver.resolve(text, context): a text that is no str is returned
\* as it is
resolve(text, context) ==
    IF text.ty # "str" THEN text ELSE StrVal(ResolveSub(text.s, context, 1))

(* ------------------------------ steps ---------------------------------- *)

\* the outcome of a call: a returned value or a raised exception class
Returned(v) == [raised |-> FALSE, exc |-> "", output |-> v]

Raised(cls) == [raised |-> TRUE, exc |-> cls, output |-> NoneVal]

\* self.config.get(key) and self.config.get(key, default)
ConfigGet(step, key, default) == DictGet(step.config, key, default)

\* PromptHarvester.extract_from_web: the page was fetched, or it was not
\* (robots.txt forbids it, or the request failed and the failure is caught)
extract_from_web(url) ==
    { [success |-> BoolVal(TRUE), url |-> url,
       content |-> StrVal(<<"page">>),
       metadata |-> DictVal([title |-> StrVal(<<"T">>)]),
       extracted_at |-> StrVal(<<"now">>)],
      [success |-> BoolVal(FALSE), error |-> StrVal(<<"failed">>), url |-> url] }

HarvestOutput(result) ==
    DictVal([success |-> result.success,
             content |-> DictGet(result, "content", StrVal(<<>>)),
             metadata |-> DictGet(result, "metadata", DictVal(EmptyMap))])

HarvestWith(url) ==
    IF url.raised THEN {Raised("AttributeError")}
    ELSE {Raised("ImportError")} \cup
         {Returned(HarvestOutput(result)) : result \in extract_from_web(url.val)}

\* HarvestStep.execute; the import of the collaborator may fail
HarvestStep_execute(step, context) ==
    HarvestWith(_resolve_variable(ConfigGet(step, "url", NoneVal), context))

\* n copies of the marker _refine appends without an API key
RECURSIVE Improved(_)
Improved(n) == IF n = 0 THEN <<>> ELSE <<"[Improved version]">> \o Improved(n - 1)

IterateFrom(first, cycles) ==
    { [final_response |-> StrVal(first \o Improved(n)),
       total_iterations |-> IntVal(n),
       final_quality |-> FloatVal(50)] : n \in cycles }

\* PromptIterator(max_iterations).iterate(topic, question, initial_prompt)
\* without an API key: the first cycle is always recorded (_should_stop is
\* False while fewer than 2 iterations exist), later ones until
\* _should_stop or max_iterations
iterate(max_iterations, topic, question, initial_prompt) ==
    IterateFrom(IF Truthy(initial_prompt) THEN initial_prompt.s
                ELSE <<"[Initial response placeholder for: ">> \o question.s \o <<"]">>,
                IF max_iterations >= 1 THEN 1..max_iterations ELSE {0})

IterateOutput(result) ==
    DictVal([final_response |-> result.final_response,
             quality |-> result.final_quality,
             iterations |-> result.total_iterations])

IterateWith(input_text, max_iters, topic) ==
    IF input_text.raised THEN {Raised("AttributeError")}
    ELSE IF input_text.val.ty # "str" \/ max_iters.ty # "int" THEN {Raised("TypeError")}
    ELSE {Raised("ImportError")} \cup
         { Returned(IterateOutput(result))
           : result \in iterate(max_iters.n \div 10, topic, input_text.val, input_text.val) }

\* what IterateStep.execute gives the PromptIterator: 'input' is resolved,
\* 'max_iters' and 'topic' are passed as configured
IterateArgs(step, context) ==
    [input_text |-> _resolve_variable(ConfigGet(step, "input", NoneVal), context),
     max_iters |-> ConfigGet(step, "max_iters", IntVal(3)),
     topic |-> ConfigGet(step, "topic", StrVal(<<"general">>))]

\* IterateStep.execute; question[:50] raises TypeError when the input is None
IterateStep_execute(step, context) ==
    IterateWith(IterateArgs(step, context).input_text,
                IterateArgs(step, context).max_iters,
                IterateArgs(step, context).topic)

\* QualityScorer.score(text): the composite in tenths; the breakdown is a
\* non-empty mapping
score(text) ==
    { [total |-> FloatVal(t), breakdown |-> DictVal([clarity |-> FloatVal(t)])]
      : t \in {60, 80} }

QualityOutput(r, min_score) ==
    DictVal([total_score |-> r.total,
             breakdown |-> r.breakdown,
             passed |-> BoolVal(r.total.n >= min_score.n)])

QualityWith(input_text, min_score) ==
    IF input_text.raised \/ input_text.val.ty # "str" THEN {Raised("AttributeError")}
    ELSE IF min_score.ty \notin {"int", "float", "bool"} THEN {Raised("TypeError")}
    ELSE {Raised("ImportError")} \cup
         {Returned(QualityOutput(r, min_score)) : r \in score(input_text.val)}

\* QualityScoreStep.execute; prompt.lower() raises AttributeError on None
QualityScoreStep_execute(step, context) ==
    QualityWith(_resolve_variable(ConfigGet(step, "input", NoneVal), context),
                ConfigGet(step, "min_score", FloatVal(70)))

\* SecurityChecker.scan(prompt): no issue found, or one CRITICAL issue;
\* issues is the length of the list of issues
scan(prompt) ==
    { [safe |-> BoolVal(TRUE), risk_score |-> IntVal(0),
       risk_level |-> StrVal(<<"LOW">>), issues |-> 0],
      [safe |-> BoolVal(FALSE), risk_score |-> IntVal(40),
       risk_level |-> StrVal(<<"CRITICAL">>), issues |-> 1] }

ScanOutput(result) ==
    DictVal([safe |-> result.safe,
             risk_score |-> result.risk_score,
             risk_level |-> result.risk_level,
             issues_count |-> IntVal(result.issues)])

ScanWith(input_text) ==
    IF input_text.raised THEN {Raised("AttributeError")}
    ELSE IF input_text.val.ty # "str" THEN {Raised("TypeError")}
    ELSE {Raised("ImportError")} \cup
         {Returned(ScanOutput(result)) : result \in scan(input_text.val)}

\* SecurityScanStep.execute; re.finditer raises TypeError on None
SecurityScanStep_execute(step, context) ==
    ScanWith(_resolve_variable(ConfigGet(step, "input", NoneVal), context))

(* -------------------------- ConditionalStep ---------------------------- *)

\* the characters of the class [><=!]
OpChars == {">", "<", "=", "!"}

\* atoms made of decimal digits only
DigitAtoms == {ToString(k) : k \in 0..100}

\* the code points of the symbols whose order the comparisons may need
CodePoints ==
    [sym \in {"0", "20", "40", "80", "85", "70", "a", "b", "T", "page",
              "True", "False", "LOW", "CRITICAL", ".", " ", "{{", "}}"} |->
        CASE sym = "0" -> <<48>>
          [] sym = "{{" -> <<123, 123>>
          [] sym = "}}" -> <<125, 125>>
          [] sym = "20" -> <<50, 48>>
          [] sym = "40" -> <<52, 48>>
          [] sym = "70" -> <<55, 48>>
          [] sym = "80" -> <<56, 48>>
          [] sym = "85" -> <<56, 53>>
          [] sym = "a" -> <<97>>
          [] sym = "b" -> <<98>>
          [] sym = "T" -> <<84>>
          [] sym = "page" -> <<112, 97, 103, 101>>
          [] sym = "True" -> <<84, 114, 117, 101>>
          [] sym = "False" -> <<70, 97, 108, 115, 101>>
          [] sym = "LOW" -> <<76, 79, 87>>
          [] sym = "CRITICAL" -> <<67, 82, 73, 84, 73, 67, 65, 76>>
          [] sym = "." -> <<46>>
          [] sym = " " -> <<32>>]

RECURSIVE Flatten(_)
Flatten(text) ==
    IF text = <<>> THEN <<>> ELSE CodePoints[Head(text)] \o Flatten(Tail(text))

\* a < b for Python strings given as code points
RECURSIVE CodeLess(_, _)
CodeLess(a, b) ==
    IF b = <<>> THEN FALSE
    ELSE IF a = <<>> THEN TRUE
    ELSE IF Head(a) # Head(b) THEN Head(a) < Head(b)
    ELSE CodeLess(Tail(a), Tail(b))

StrLess(a, b) == CodeLess(Flatten(a), Flatten(b))

\* the number of "s" characters from position from on
RECURSIVE RunOf(_, _, _)
RunOf(text, syms, from) ==
    IF from <= Len(text) /\ text[from] \in syms
    THEN 1 + RunOf(text, syms, from + 1) ELSE 0

\* the tail of the pattern after group 1 ends before position q:
\* }} \\ s* ([><=!]+) \\ s* (.+) with the backslashes taken literally, as the
\* raw string r'...\\s*...' spells them.  The operator runs from b to e - 1,
\* ns "s" follow the second backslash and group 3 starts at g: s* gives one
\* "s" back when nothing else is left for (.+).  No match gives ok = FALSE
TailGroups(text, a, b, e, g) ==
    IF a <= Len(text) /\ text[a] = "\\" /\ e > b
       /\ e <= Len(text) /\ text[e] = "\\" /\ g <= Len(text)
    THEN [ok |-> TRUE, operator |-> SubSeq(text, b, e - 1),
          value |-> SubSeq(text, g, Len(text))]
    ELSE [ok |-> FALSE, operator |-> <<>>, value |-> <<>>]

TailValue(text, a, b, e, ns) ==
    TailGroups(text, a, b, e,
               IF e + ns = Len(text) /\ ns > 0 THEN e + ns ELSE e + ns + 1)

TailOps(text, a, b, e) == TailValue(text, a, b, e, RunOf(text, {"s"}, e + 1))

TailFrom(text, a, b) == TailOps(text, a, b, b + RunOf(text, OpChars, b))

TailMatch(text, q) == TailFrom(text, q + 1, q + 2 + RunOf(text, {"s"}, q + 2))

MatchGroups(text, q, tail) ==
    [ok |-> TRUE, var_path |-> SubSeq(text, 2, q - 1),
     operator |-> tail.operator, value |-> tail.value]

FirstMatch(text, ends) ==
    IF Len(text) >= 1 /\ text[1] = "{{" /\ ends # {}
    THEN MatchGroups(text, CHOOSE x \in ends : \A y \in ends : x <= y,
                     TailMatch(text, CHOOSE x \in ends : \A y \in ends : x <= y))
    ELSE [ok |-> FALSE, var_path |-> <<>>, operator |-> <<>>, value |-> <<>>]

\* re.match(r'{{(.+?)}}\\s*([><=!]+)\\s*(.+)', condition): group 1 is lazy,
\* so it ends at the first "}}" after which the tail matches
ConditionMatch(text) ==
    FirstMatch(text, {q \in 3..Len(text) : text[q] = "}}" /\ TailMatch(text, q).ok})

RECURSIVE WithoutDots(_)
WithoutDots(text) ==
    IF text = <<>> THEN <<>>
    ELSE (IF Head(text) = "." THEN <<>> ELSE <<Head(text)>>) \o WithoutDots(Tail(text))

\* value.replace('.', '').isdigit()
IsDigitText(text) ==
    LET t == WithoutDots(text)
    IN t # <<>> /\ \A j \in 1..Len(t) : t[j] \in DigitAtoms

RECURSIVE LStripQuotes(_)
LStripQuotes(text) ==
    IF text # <<>> /\ Head(text) \in {"\"", "'"} THEN LStripQuotes(Tail(text)) ELSE text

RECURSIVE RStripQuotes(_)
RStripQuotes(text) ==
    IF text # <<>> /\ text[Len(text)] \in {"\"", "'"}
    THEN RStripQuotes(SubSeq(text, 1, Len(text) - 1)) ELSE text

\* ops.get(operator, lambda a, b: False)(var_value, value) with var_value a
\* str: against a float the order comparisons raise TypeError
ApplyOp(operator, var_value, value, isFloat) ==
    CASE operator = <<"=", "=">> ->
            Returned(BoolVal(~isFloat /\ var_value = value))
      [] operator = <<"!", "=">> ->
            Returned(BoolVal(isFloat \/ var_value # value))
      [] operator \in {<<">">>, <<"<">>, <<">", "=">>, <<"<", "=">>} ->
            IF isFloat THEN Raised("TypeError")
            ELSE Returned(BoolVal(
                    CASE operator = <<">">> -> StrLess(value, var_value)
                      [] operator = <<"<">> -> StrLess(var_value, value)
                      [] operator = <<">", "=">> -> ~StrLess(var_value, value)
                      [] operator = <<"<", "=">> -> ~StrLess(value, var_value)))
      [] OTHER -> Returned(BoolVal(FALSE))

\* the comparison, once the variable is resolved; float() raises ValueError
\* on two dots; a str literal loses the quotes around it
Compare(match, var_value, isFloat) ==
    IF var_value.raised THEN Raised("AttributeError")
    ELSE IF isFloat /\ Len(match.value) - Len(WithoutDots(match.value)) > 1
         THEN Raised("ValueError")
    ELSE ApplyOp(match.operator, var_value.val.s,
                 IF isFloat THEN match.value
                 ELSE RStripQuotes(LStripQuotes(match.value)),
                 isFloat)

Evaluate(match, context) ==
    IF ~match.ok THEN Returned(BoolVal(FALSE))
    ELSE Compare(match,
                 _resolve_variable(StrVal(<<"{{">> \o match.var_path \o <<"}}">>), context),
                 IsDigitText(match.value))

\* ConditionalStep._evaluate_condition: re.match raises TypeError when the
\* condition is no str
_evaluate_condition(condition, context) ==
    IF condition.ty # "str" THEN Raised("TypeError")
    ELSE Evaluate(ConditionMatch(condition.s), context)

\* an execute that takes the label of the other outcome
ConditionalOutput_swapped(step, result) ==
    IF result.raised THEN {result}
    ELSE {Returned(DictVal(
             [condition_met |-> result.output,
              branch |-> ConfigGet(step,
                             IF Truthy(result.output) THEN "if_false" ELSE "if_true",
                             NoneVal)]))}

\* the dict execute returns, or the exception _evaluate_condition raised
ConditionalOutput(step, result) ==
    IF result.raised THEN {result}
    ELSE {Returned(DictVal(
             [condition_met |-> result.output,
              branch |-> ConfigGet(step,
                             IF Truthy(result.output) THEN "if_true" ELSE "if_false",
                             NoneVal)]))}

\* ConditionalStep.execute
ConditionalStep_execute(step, context) ==
    ConditionalOutput(step,
        _evaluate_condition(ConfigGet(step, "condition", NoneVal), context))

(* ----------------------------- ChainBuilder ---------------------------- *)

STEP_TYPES == {"harvest_web", "dna_iterate", "quality_score", "security_scan",
               "conditional"}

\* WorkflowStep.__init__
WorkflowStep(step_id, step_type, config) ==
    [id |-> step_id, type |-> step_type, config |-> config]

\* an add_step that does not look the type up before it adds the step
add_step_unchecked(steps, step_type, config, step_id) ==
    [raised |-> FALSE,
     steps |-> Append(steps, WorkflowStep(IF step_id # "" THEN step_id
                                          ELSE step_type \o "_" \o ToString(Len(steps)),
                                          step_type, config)),
     step_id |-> IF step_id # "" THEN step_id
                 ELSE step_type \o "_" \o ToString(Len(steps))]

\* an add_step that counts the new step in: the default id of the first
\* step ends in 1
add_step_oneBased(steps, step_type, config, step_id) ==
    IF step_type \notin STEP_TYPES
    THEN [raised |-> TRUE, steps |-> steps, step_id |-> ""]
    ELSE [raised |-> FALSE,
          steps |-> Append(steps, WorkflowStep(IF step_id # "" THEN step_id
                                               ELSE step_type \o "_" \o ToString(Len(steps) + 1),
                                               step_type, config)),
          step_id |-> IF step_id # "" THEN step_id
                      ELSE step_type \o "_" \o ToString(Len(steps) + 1)]

\* ChainBuilder.add_step(step_type, config, step_id) on a builder holding
\* steps; step_id "" stands for an id that is not given (None or empty, both
\* falsy).  Raises ValueError for a type that is not registered
add_step(steps, step_type, config, step_id) ==
    IF step_type \notin STEP_TYPES
    THEN [raised |-> TRUE, steps |-> steps, step_id |-> ""]
    ELSE LET id == IF step_id # "" THEN step_id
                   ELSE step_type \o "_" \o ToString(Len(steps))
         IN [raised |-> FALSE,
             steps |-> Append(steps, WorkflowStep(id, step_type, config)),
             step_id |-> id]

Ref(a, b) == StrVal(<<"{{", a, ".", b, "}}">>)

\* the add_step calls the model draws from: the chains of the module's demo
\* (a harvest feeding an iteration, a score, a scan and a condition), a scan
\* with an explicit id, and a condition written with the backslashes the
\* pattern of _evaluate_condition asks for, which is true for the url given
AddStepInputs ==
    { [step_type |-> "harvest_web", step_id |-> "",
       config |-> [url |-> Ref("inputs", "url")]],
      [step_type |-> "dna_iterate", step_id |-> "",
       config |-> [input |-> Ref("harvest_web_0", "content"),
                   topic |-> Ref("inputs", "topic"),
                   max_iters |-> IntVal(1)]],
      [step_type |-> "quality_score", step_id |-> "",
       config |-> [input |-> Ref("harvest_web_0", "content"),
                   min_score |-> FloatVal(70)]],
      [step_type |-> "security_scan", step_id |-> "",
       config |-> [input |-> Ref("harvest_web_0", "content")]],
      [step_type |-> "conditional", step_id |-> "",
       config |-> [condition |-> StrVal(<<"{{", "security_scan_0", ".", "risk_score",
                                          "}}", " ", "<", " ", "20">>),
                   if_true |-> StrVal(<<"proceed">>),
                   if_false |-> StrVal(<<"halt">>)]],
      [step_type |-> "security_scan", step_id |-> "scan",
       config |-> [input |-> Ref("inputs", "url")]],
      [step_type |-> "conditional", step_id |-> "",
       config |-> [condition |-> StrVal(<<"{{", "inputs", ".", "url", "}}",
                                          "\\", "=", "=", "\\", "https://x">>),
                   if_true |-> StrVal(<<"proceed">>),
                   if_false |-> StrVal(<<"halt">>)]] }

\* the step lists a builder reaches with n add_step calls
RECURSIVE StepLists(_)
StepLists(n) ==
    IF n = 0 THEN {<<>>}
    ELSE { add_step(l, a.step_type, a.config, a.step_id).steps
           : l \in StepLists(n - 1), a \in AddStepInputs }

BuiltStepLists == UNION {StepLists(n) : n \in 0..MaxSteps}

(* ------------------------------ Workflow ------------------------------- *)

VARIABLES
    steps,          \* Workflow.steps
    context,        \* Workflow.context
    execution_log,  \* Workflow.execution_log
    pc,             \* where run() is: "idle", "loop", "break", "returned", "propagated"
    i,              \* the position of the for loop, from 1
    report,         \* what the last run() returned
    runs,           \* number of run() calls so far
    attempted,      \* history: the positions whose execute was called in this run
    logBase,        \* history: Len(execution_log) when this run started
    stopped         \* history: why this run left the loop: "", "halt" or "error"

vars == <<steps, context, execution_log, pc, i, report, runs, attempted, logBase, stopped>>

\* one call of a function of the module on its own, outside a run
VARIABLES
    pieces,         \* how the caller put the argument together
    arg,            \* the argument: a text, or a Conditional step
    call_ctx,       \* the mapping passed as context
    out             \* the outcome of the call; fn is "none" before it

callVars == <<pieces, arg, call_ctx, out>>

NoOutcome == [fn |-> "none", passes |-> 0, raised |-> FALSE, exc |-> "", val |-> NoneVal]

\* no function is called
NoCall == pieces = <<>> /\ arg = NoneVal /\ call_ctx = EmptyMap /\ out = NoOutcome

\* a ChainBuilder on its own, before and after build()
VARIABLES
    builder_steps,  \* ChainBuilder.steps
    builder_name,   \* ChainBuilder.name; "None" before it is set
    last_call,      \* the last call on the builder or on the Workflow it built,
                    \* "none" before the first
    built,          \* whether build() has returned a Workflow
    loaded          \* the last export of the Workflow and what a new builder
                    \* loaded from it; NoLoad before the first

builderVars == <<builder_steps, builder_name, last_call, built, loaded>>

\* no Workflow has been exported
NoLoad ==
    [done |-> FALSE, original |-> <<>>,
     outcome |-> [raised |-> FALSE, steps |-> <<>>, name |-> "None"]]

\* no builder is constructed
NoBuilder ==
    /\ builder_steps = <<>>
    /\ builder_name = "None"
    /\ last_call = "none"
    /\ built = FALSE
    /\ loaded = NoLoad

\* one call of PromptIterator.iterate on its own
VARIABLES
    it_max,         \* PromptIterator.max_iterations
    iterations,     \* the list iterations of iterate
    it_i,           \* the loop variable i of iterate
    it_pc,          \* where iterate is: "idle", "loop", "break", "returned", "raised"
    it_result       \* what iterate returned

iterVars == <<it_max, iterations, it_i, it_pc, it_result>>

NoResult == [total_iterations |-> 0, initial_quality |-> 0, final_quality |-> 0]

\* iterate is not called
NoIteration ==
    /\ it_max = 0
    /\ iterations = <<>>
    /\ it_i = 0
    /\ it_pc = "idle"
    /\ it_result = NoResult

\* the mappings a caller passes to run()
RunInputs ==
    { DictVal(EmptyMap),
      DictVal([url |-> StrVal(<<"https://x">>), topic |-> StrVal(<<"t">>)]) }

NoReport == [status |-> "none"]

\* step.execute(context), by the class STEP_TYPES gives the step
execute(step, ctx) ==
    CASE step.type = "harvest_web" -> HarvestStep_execute(step, ctx)
      [] step.type = "dna_iterate" -> IterateStep_execute(step, ctx)
      [] step.type = "quality_score" -> QualityScoreStep_execute(step, ctx)
      [] step.type = "security_scan" -> SecurityScanStep_execute(step, ctx)
      [] step.type = "conditional" -> ConditionalStep_execute(step, ctx)

\* a run that writes 'inputs' into the mapping of the run before
SeedContext_keepOld(inputs) == DictSet(context, "inputs", inputs)

\* self.context = {'inputs': inputs}
SeedContext(inputs) == [inputs |-> inputs]

\* the log entry of a step that returned; the duration is a wall-clock
\* difference, which the model does not measure
SuccessEntry(step, output) ==
    [step_id |-> step.id, step_type |-> step.type, status |-> "success",
     duration |-> 0, output |-> output]

\* the log entry of a step that raised
ErrorEntry(step, exc) ==
    [step_id |-> step.id, step_type |-> step.type, status |-> "error",
     error |-> exc]

\* a halt that also applies to a Conditional step whose condition is not met
HaltCondition_onBranch(step, output) ==
    \/ step.type = "security_scan" /\ ~Truthy(DictGet(output.m, "safe", NoneVal))
    \/ step.type = "conditional" /\ ~Truthy(DictGet(output.m, "condition_met", NoneVal))

\* a test that also leaves the loop after an output that reports no success
HaltCondition_onFailure(step, output) ==
    \/ step.type = "security_scan" /\ ~Truthy(DictGet(output.m, "safe", NoneVal))
    \/ "success" \in DOMAIN output.m /\ ~Truthy(output.m.success)

\* step.type == 'security_scan' and not output.get('safe')
HaltCondition(step, output) ==
    step.type = "security_scan" /\ ~Truthy(DictGet(output.m, "safe", NoneVal))

\* a handler that catches ValueError alone
Handles_valueErrorOnly(exc) == exc = "ValueError"

\* except Exception: the classes the handler catches
Handles(exc) == exc \in {"AttributeError", "TypeError", "ValueError", "ImportError"}

\* a handler that appends no entry
LogError_skip(step, exc) == execution_log

\* self.execution_log.append(log_entry) in the handler
LogError(step, exc) == Append(execution_log, ErrorEntry(step, exc))

\* a handler that goes on with the next step
AfterError_continue == "loop"

\* the handler ends the loop with break
AfterError == "break"

\* the 'status' the report carries
ReportStatus(why) == "completed"

\* the dict run() returns, as the caller reads it on return
Report(ctx, log, why) ==
    [workflow_id |-> "uuid", name |-> "wf", status |-> ReportStatus(why),
     duration |-> 0, steps_executed |-> Len(log), context |-> ctx, log |-> log]

Init ==
    /\ steps \in BuiltStepLists
    /\ context = EmptyMap
    /\ execution_log = <<>>
    /\ pc = "idle"
    /\ i = 0
    /\ report = NoReport
    /\ runs = 0
    /\ attempted = <<>>
    /\ logBase = 0
    /\ stopped = ""
    /\ NoCall
    /\ NoBuilder
    /\ NoIteration

\* run(inputs) up to the loop
Run(inputs) ==
    /\ pc \in {"idle", "returned"}
    /\ runs < MaxRuns
    /\ context' = SeedContext(inputs)
    /\ pc' = "loop"
    /\ i' = 1
    /\ runs' = runs + 1
    /\ attempted' = <<>>
    /\ logBase' = Len(execution_log)
    /\ stopped' = ""
    /\ UNCHANGED <<steps, execution_log, report>>

\* a loop that stays at the step it has just executed
NextPosition_same(k) == k

\* for i, step in enumerate(self.steps): the position after position k
NextPosition(k) == k + 1

\* one pass of the loop body in which execute returns and no halt applies
StepSuccess ==
    /\ pc = "loop"
    /\ i <= Len(steps)
    /\ \E o \in execute(steps[i], context) :
        /\ ~o.raised
        /\ ~HaltCondition(steps[i], o.output)
        /\ context' = DictSet(context, steps[i].id, o.output)
        /\ execution_log' = Append(execution_log, SuccessEntry(steps[i], o.output))
    /\ attempted' = Append(attempted, i)
    /\ i' = NextPosition(i)
    /\ UNCHANGED <<steps, pc, report, runs, logBase, stopped>>

\* one pass in which a security_scan step returns an output that is not safe
StepHalt ==
    /\ pc = "loop"
    /\ i <= Len(steps)
    /\ \E o \in execute(steps[i], context) :
        /\ ~o.raised
        /\ HaltCondition(steps[i], o.output)
        /\ context' = DictSet(context, steps[i].id, o.output)
        /\ execution_log' = Append(execution_log, SuccessEntry(steps[i], o.output))
    /\ attempted' = Append(attempted, i)
    /\ pc' = "break"
    /\ stopped' = "halt"
    /\ UNCHANGED <<steps, i, report, runs, logBase>>

\* one pass in which execute raises
StepError ==
    /\ pc = "loop"
    /\ i <= Len(steps)
    /\ \E o \in execute(steps[i], context) :
        /\ o.raised
        /\ IF Handles(o.exc)
           THEN /\ execution_log' = LogError(steps[i], o.exc)
                /\ pc' = AfterError
                /\ i' = IF AfterError = "loop" THEN NextPosition(i) ELSE i
           ELSE /\ pc' = "propagated"
                /\ UNCHANGED <<execution_log, i>>
    /\ attempted' = Append(attempted, i)
    /\ stopped' = "error"
    /\ UNCHANGED <<steps, context, report, runs, logBase>>

\* the end of run(): the loop is exhausted or was left by break
Return ==
    /\ \/ pc = "loop" /\ i > Len(steps)
       \/ pc = "break"
    /\ report' = Report(context, execution_log, stopped)
    /\ pc' = "returned"
    /\ UNCHANGED <<steps, context, execution_log, i, runs, attempted, logBase, stopped>>

Next ==
    \/ (\E inputs \in RunInputs : Run(inputs)) /\ UNCHANGED <<callVars, builderVars, iterVars>>
    \/ StepSuccess /\ UNCHANGED <<callVars, builderVars, iterVars>>
    \/ StepHalt /\ UNCHANGED <<callVars, builderVars, iterVars>>
    \/ StepError /\ UNCHANGED <<callVars, builderVars, iterVars>>
    \/ Return /\ UNCHANGED <<callVars, builderVars, iterVars>>

\* a Workflow that a builder built, run up to MaxRuns times
Spec == Init /\ [][Next]_<<vars, callVars, builderVars, iterVars>>

\* one pass of the loop body, whichever way it ends: the steps of Next that
\* are StepSuccess, StepHalt or StepError
Attempt ==
    /\ pc = "loop"
    /\ i <= Len(steps)
    /\ attempted' = Append(attempted, i)

\* the same, with every call of execute returning or raising, and the code
\* after the loop running once the loop is left
LiveSpec ==
    /\ Init
    /\ [][Next]_<<vars, callVars, builderVars, iterVars>>
    /\ WF_attempted(Attempt)
    /\ WF_vars(Return /\ UNCHANGED <<callVars, builderVars, iterVars>>)

(* ---------------------- the resolvers on their own --------------------- *)

\* longest text, in pieces, a caller passes to a resolver
MaxPieces == 2

\* no Workflow is constructed
NoRun ==
    /\ steps = <<>>
    /\ context = EmptyMap
    /\ execution_log = <<>>
    /\ pc = "idle"
    /\ i = 0
    /\ report = NoReport
    /\ runs = 0
    /\ attempted = <<>>
    /\ logBase = 0
    /\ stopped = ""

\* the contexts the calls draw from: the empty one, one shaped like the
\* context of a run after a scan, and the nested mapping {a: {b: 85}}
Contexts ==
    { EmptyMap,
      [inputs |-> DictVal([url |-> StrVal(<<"https://x">>)]),
       scan |-> DictVal([safe |-> BoolVal(FALSE),
                         risk_score |-> IntVal(0),
                         risk_level |-> StrVal(<<"LOW">>),
                         note |-> StrVal(<<>>),
                         meta |-> DictVal(EmptyMap)])],
      [a |-> DictVal([b |-> IntVal(85)])] }

\* the paths of the references the texts hold
RefPaths ==
    { <<"scan", "risk_level">>, <<"scan", "risk_score">>, <<"scan", "safe">>,
      <<"scan", "note">>, <<"scan", "meta">>, <<"scan">>, <<"a", "b">>,
      <<"scan", "absent">>, <<"absent", "risk_level">>,
      <<"scan", "risk_level", "x">>, <<"scan", "risk_score", "x">> }

\* a piece of a text: a reference {{path}} (with blanks around the path when
\* pad), or a run of other symbols.  No piece holds a line break, the one
\* character the '.' of the pattern does not match
RefPiece(path, pad) == [kind |-> "ref", path |-> path, pad |-> pad, s |-> <<>>]

PlainPiece(text) == [kind |-> "plain", path |-> <<>>, pad |-> FALSE, s |-> text]

Pieces ==
    {RefPiece(path, FALSE) : path \in RefPaths}
    \cup {RefPiece(<<"scan", "risk_level">>, TRUE), RefPiece(<<"scan", "absent">>, TRUE)}
    \cup {PlainPiece(<<"x">>), PlainPiece(<<" ">>), PlainPiece(<<"{{">>), PlainPiece(<<"}}">>)}

RECURSIVE Dotted(_)
Dotted(path) ==
    IF Len(path) <= 1 THEN path ELSE <<Head(path), ".">> \o Dotted(Tail(path))

PieceText(p) ==
    IF p.kind = "plain" THEN p.s
    ELSE <<"{{">> \o (IF p.pad THEN <<" ">> ELSE <<>>) \o Dotted(p.path)
         \o (IF p.pad THEN <<" ">> ELSE <<>>) \o <<"}}">>

RECURSIVE TextOf(_)
TextOf(ps) == IF ps = <<>> THEN <<>> ELSE PieceText(Head(ps)) \o TextOf(Tail(ps))

PieceSeqs == UNION {[1..n -> Pieces] : n \in 0..MaxPieces}

\* the values a caller passes as text: a str, or something that is no str
ResolverInit ==
    /\ pieces \in PieceSeqs
    /\ arg \in {StrVal(TextOf(pieces))}
               \cup (IF pieces = <<>> THEN {NoneVal, IntVal(5)} ELSE {})
    /\ call_ctx \in Contexts
    /\ out = NoOutcome
    /\ NoRun
    /\ NoBuilder
    /\ NoIteration

\* the outcome of resolve, which has no raise of its own
ResolveOutcome(val, n) ==
    [fn |-> "resolve", passes |-> n, raised |-> FALSE, exc |-> "", val |-> val]

\* the outcome of _resolve_variable; the only exception it raises is the
\* AttributeError of .get on a value that is no dict
ResolveVariableOutcome(r, n) ==
    [fn |-> "_resolve_variable", passes |-> n, raised |-> r.raised,
     exc |-> IF r.raised THEN "AttributeError" ELSE "",
     val |-> IF r.raised THEN NoneVal ELSE r.val]

\* VariableResolver.resolve(text, context)
CallResolve ==
    /\ out.fn = "none"
    /\ out' = ResolveOutcome(resolve(arg, call_ctx), 1)
    /\ UNCHANGED <<pieces, arg, call_ctx, vars, builderVars, iterVars>>

\* step._resolve_variable(value, context)
CallResolveVariable ==
    /\ out.fn = "none"
    /\ out' = ResolveVariableOutcome(_resolve_variable(arg, call_ctx), 1)
    /\ UNCHANGED <<pieces, arg, call_ctx, vars, builderVars, iterVars>>

\* the same function once more, on what the first call returned
SecondPass ==
    /\ out.fn # "none"
    /\ out.passes = 1
    /\ ~out.raised
    /\ arg' = out.val
    /\ out' = IF out.fn = "resolve"
              THEN ResolveOutcome(resolve(out.val, call_ctx), 2)
              ELSE ResolveVariableOutcome(_resolve_variable(out.val, call_ctx), 2)
    /\ UNCHANGED <<pieces, call_ctx, vars, builderVars, iterVars>>

ResolverNext ==
    \/ CallResolve
    \/ CallResolveVariable
    \/ SecondPass

ResolverSpec == ResolverInit /\ [][ResolverNext]_<<vars, callVars, builderVars, iterVars>>

(* ------------------- the Conditional step on its own ------------------- *)

\* the contexts a condition is evaluated in
ConditionContexts ==
    { EmptyMap,
      [a |-> DictVal([b |-> IntVal(85)])],
      [a |-> DictVal([b |-> IntVal(70)])],
      [a |-> DictVal([b |-> StrVal(<<"LOW">>)])],
      [a |-> StrVal(<<"LOW">>)] }

\* the operators a condition is written with: the six of ops, and three
\* that ops does not hold
ConditionOps ==
    { <<">">>, <<"<">>, <<">", "=">>, <<"<", "=">>, <<"=", "=">>, <<"!", "=">>,
      <<"~", "~">>, <<"=", "!">>, <<"=">> }

\* what separates the operator from its sides: a blank, nothing, or the
\* backslash the pattern asks for
ConditionSeps == { <<" ">>, <<>>, <<"\\">> }

\* the literals, each with its number in tenths (-1 when it is none)
ConditionLiterals ==
    { [s |-> <<"80">>, n |-> 800],
      [s |-> <<"85">>, n |-> 850],
      [s |-> <<"80", ".", "0">>, n |-> 800],
      [s |-> <<"1", ".", "2", ".", "3">>, n |-> -1],
      [s |-> <<"LOW">>, n |-> -1],
      [s |-> <<"'", "LOW", "'">>, n |-> -1] }

\* a condition by its parts; without braces the path stands bare
ConditionPieces ==
    [kind : {"condition"}, braces : BOOLEAN, path : {<<"a", "b">>},
     sep : ConditionSeps, op : ConditionOps, lit : ConditionLiterals]

ConditionText(p) ==
    (IF p.braces THEN <<"{{">> \o Dotted(p.path) \o <<"}}">> ELSE Dotted(p.path))
    \o p.sep \o p.op \o p.sep \o p.lit.s

\* the labels a Conditional step is configured with: both, or if_true alone
ConditionConfigs(p) ==
    { [condition |-> StrVal(ConditionText(p)),
       if_true |-> StrVal(<<"proceed">>), if_false |-> StrVal(<<"halt">>)],
      [condition |-> StrVal(ConditionText(p)),
       if_true |-> StrVal(<<"proceed">>)] }

ConditionInit ==
    /\ pieces \in {<<p>> : p \in ConditionPieces}
    /\ arg \in {WorkflowStep("conditional_0", "conditional", config)
                : config \in ConditionConfigs(pieces[1])}
    /\ call_ctx \in ConditionContexts
    /\ out = NoOutcome
    /\ NoRun
    /\ NoBuilder
    /\ NoIteration

ExecuteOutcome(o) ==
    [fn |-> "execute", passes |-> 1, raised |-> o.raised, exc |-> o.exc, val |-> o.output]

\* ConditionalStep.execute(context)
CallExecute ==
    /\ out.fn = "none"
    /\ out' \in {ExecuteOutcome(o) : o \in ConditionalStep_execute(arg, call_ctx)}
    /\ UNCHANGED <<pieces, arg, call_ctx, vars, builderVars, iterVars>>

ConditionNext == CallExecute

ConditionSpec == ConditionInit /\ [][ConditionNext]_<<vars, callVars, builderVars, iterVars>>

(* --------------------- the ChainBuilder on its own ---------------------- *)

\* the add_step calls a builder gets: those of AddStepInputs, and calls with
\* a type STEP_TYPES does not hold
AddStepCalls ==
    AddStepInputs \cup
    { [step_type |-> "llm_call", step_id |-> "",
       config |-> [input |-> Ref("inputs", "url")]],
      [step_type |-> "Harvest", step_id |-> "h",
       config |-> [url |-> Ref("inputs", "url")]] }

\* one step_data of a YAML file: the mapping has no 'id' when none is written
StepData(a) ==
    IF a.step_id = "" THEN [type |-> a.step_type, config |-> a.config]
    ELSE [type |-> a.step_type, config |-> a.config, id |-> a.step_id]

\* the step_data the files of the model hold: a harvest without an id, the
\* scan with the id "scan", and a step of a type that is not registered
YamlRecords ==
    { StepData(a) : a \in { c \in AddStepCalls :
                               \/ c.step_type \in {"harvest_web", "llm_call"}
                               \/ c.step_id = "scan" } }

\* data['steps'] of a YAML file: up to n step_data
YamlSteps(n) == UNION {[1..k -> YamlRecords] : k \in 0..n}

\* the names the model gives: to build(), and in a YAML file written by hand
BuildNames == {"wf"}
YamlNames == {"doc"}

\* what the last call on the builder was: the types and ids it asked for
\* ("" for no id), whether it raised, and the id add_step returned
Call(op, types, ids, raised, returned) ==
    [op |-> op, types |-> types, ids |-> ids, raised |-> raised, returned |-> returned]

BuilderInit ==
    /\ builder_steps = <<>>
    /\ builder_name = "None"
    /\ last_call = Call("__init__", <<>>, <<>>, FALSE, "")
    /\ built = FALSE
    /\ loaded = NoLoad
    /\ NoRun
    /\ NoCall
    /\ NoIteration

\* step_data.get('id'): None, written "", when the mapping has no 'id'
StepDataId(step_data) == IF "id" \in DOMAIN step_data THEN step_data.id ELSE ""

\* a from_yaml that adds nothing unless every type of the file is registered
RECURSIVE AddAll(_, _)
AddAll(self_steps, data) ==
    IF data = <<>> THEN self_steps
    ELSE AddAll(add_step(self_steps, Head(data).type, Head(data).config,
                         StepDataId(Head(data))).steps,
                Tail(data))

AddEach_atomic(self_steps, data) ==
    IF \E k \in 1..Len(data) : data[k].type \notin STEP_TYPES
    THEN [raised |-> TRUE, steps |-> self_steps]
    ELSE [raised |-> FALSE, steps |-> AddAll(self_steps, data)]

\* a from_yaml that leaves the ids of the file out
AddEach_noIds(self_steps, data) ==
    [raised |-> \E k \in 1..Len(data) : data[k].type \notin STEP_TYPES,
     steps |-> AddAll(self_steps,
                      [k \in 1..Len(data) |-> [type |-> data[k].type,
                                               config |-> data[k].config]])]

\* the loop of from_yaml over data['steps']: the first add_step that raises
\* ends it, with the steps before it added
RECURSIVE AddEach(_, _)
AddRest(r, rest) ==
    IF r.raised THEN [raised |-> TRUE, steps |-> r.steps]
    ELSE AddEach(r.steps, rest)

AddEach(self_steps, data) ==
    IF data = <<>> THEN [raised |-> FALSE, steps |-> self_steps]
    ELSE AddRest(add_step(self_steps, Head(data).type, Head(data).config,
                          StepDataId(Head(data))),
                 Tail(data))

(* YAML: yaml.dump writes a scalar plain when the plain text reads back as
   the same value, and in quotes otherwise; yaml.safe_load gives a quoted
   scalar as a str and resolves a plain one by its form.  The config values
   of the model are scalars. *)

\* the plain scalars safe_load does not read as a str
ReadsAsOther(text) ==
    \/ text \in {<<"true">>, <<"false">>, <<"True">>, <<"False">>, <<"null">>,
                 <<"None">>, <<>>}
    \/ IsDigitText(text)

\* a dump that never quotes
YamlScalar_plain(v) ==
    [plain |-> TRUE,
     text |-> CASE v.ty = "none" -> <<"null">>
                [] v.ty = "bool" -> (IF v.n # 0 THEN <<"true">> ELSE <<"false">>)
                [] OTHER -> v.s]

\* how yaml.dump represents a scalar
YamlScalar(v) ==
    CASE v.ty = "none" -> [plain |-> TRUE, text |-> <<"null">>]
      [] v.ty = "bool" -> [plain |-> TRUE,
                           text |-> IF v.n # 0 THEN <<"true">> ELSE <<"false">>]
      [] v.ty \in {"int", "float"} -> [plain |-> TRUE, text |-> v.s]
      [] OTHER -> [plain |-> ~(\/ ReadsAsOther(v.s)
                               \/ Head(v.s) \in {"{{", "}}", " ", "\"", "'"}
                               \/ v.s[Len(v.s)] = " "),
                   text |-> v.s]

\* the int a run of digits stands for
DigitsValue(atom) == CHOOSE k \in 0..100 : ToString(k) = atom

\* how yaml.safe_load constructs a scalar: a plain scalar that opens a flow
\* mapping does not construct (the key of the inner mapping is a mapping)
YamlConstruct(node) ==
    IF ~node.plain THEN Returned(StrVal(node.text))
    ELSE IF node.text \in {<<"null">>, <<>>} THEN Returned(NoneVal)
    ELSE IF node.text \in {<<"true">>, <<"True">>} THEN Returned(BoolVal(TRUE))
    ELSE IF node.text \in {<<"false">>, <<"False">>} THEN Returned(BoolVal(FALSE))
    ELSE IF Len(node.text) = 1 /\ node.text[1] \in DigitAtoms
         THEN Returned(IntVal(DigitsValue(node.text[1])))
    ELSE IF /\ Len(node.text) = 3
            /\ node.text[1] \in DigitAtoms
            /\ node.text[2] = "."
            /\ node.text[3] \in DigitAtoms
         THEN Returned(FloatVal(10 * DigitsValue(node.text[1])
                                + DigitsValue(node.text[3])))
    ELSE IF Head(node.text) = "{{" THEN Raised("ConstructorError")
    ELSE Returned(StrVal(node.text))

\* WorkflowStep.to_dict
to_dict(step) == [id |-> step.id, type |-> step.type, config |-> step.config]

\* yaml.dump of one step mapping: the id and the type are strs of one atom
YamlStep(d) ==
    [id |-> YamlScalar(StrVal(<<d.id>>)),
     type |-> YamlScalar(StrVal(<<d.type>>)),
     config |-> [key \in DOMAIN d.config |-> YamlScalar(d.config[key])]]

\* Workflow.export(): the document yaml.dump writes
export(name, wf_steps) ==
    [name |-> YamlScalar(StrVal(<<name>>)),
     steps |-> [k \in 1..Len(wf_steps) |-> YamlStep(to_dict(wf_steps[k]))]]

\* the atom of a constructed str of one atom, the printed text otherwise
AtomOf(r) == IF r.output.ty = "str" /\ Len(r.output.s) = 1 THEN r.output.s[1] ELSE "?"

\* yaml.safe_load of one step mapping
LoadStep(node) ==
    [type |-> AtomOf(YamlConstruct(node.type)),
     config |-> [key \in DOMAIN node.config |-> YamlConstruct(node.config[key]).output],
     id |-> AtomOf(YamlConstruct(node.id))]

\* yaml.safe_load(f) of an exported document
safe_load(doc) ==
    IF \E k \in 1..Len(doc.steps) : \E key \in DOMAIN doc.steps[k].config :
           YamlConstruct(doc.steps[k].config[key]).raised
    THEN [raised |-> TRUE, name |-> "None", steps |-> <<>>]
    ELSE [raised |-> FALSE,
          name |-> AtomOf(YamlConstruct(doc.name)),
          steps |-> [k \in 1..Len(doc.steps) |-> LoadStep(doc.steps[k])]]

\* the body of ChainBuilder.from_yaml on a builder that holds self_steps,
\* with data what safe_load gave: the name is set before the steps are added
from_yaml(self_steps, self_name, data) ==
    IF data.raised
    THEN [raised |-> TRUE, steps |-> self_steps, name |-> self_name]
    ELSE [raised |-> AddEach(self_steps, data.steps).raised,
          steps |-> AddEach(self_steps, data.steps).steps,
          name |-> data.name]

\* the list of steps the built Workflow holds: build() passes self.steps
\* itself, so it is the list of the builder at every later moment
WorkflowSteps == builder_steps

\* builder.add_step(step_type, config, step_id)
AddStep(a) ==
    /\ Len(builder_steps) < MaxSteps
    /\ builder_steps' = add_step(builder_steps, a.step_type, a.config, a.step_id).steps
    /\ last_call' = Call("add_step", <<a.step_type>>, <<a.step_id>>,
                         add_step(builder_steps, a.step_type, a.config, a.step_id).raised,
                         add_step(builder_steps, a.step_type, a.config, a.step_id).step_id)
    /\ UNCHANGED <<builder_name, built, loaded, vars, callVars, iterVars>>

\* builder.build(name): the Workflow holds the list self.steps
Build(name) ==
    /\ builder_name' = name
    /\ last_call' = Call("build", <<>>, <<>>, FALSE, "")
    /\ built' = TRUE
    /\ UNCHANGED <<builder_steps, loaded, vars, callVars, iterVars>>

\* builder.from_yaml(path) on a file written by hand: add_step for each step
\* of the file, then build
FromYaml(name, data) ==
    /\ Len(AddEach(builder_steps, data).steps) <= MaxSteps
    /\ builder_steps' =
           from_yaml(builder_steps, builder_name,
                     [raised |-> FALSE, name |-> name, steps |-> data]).steps
    /\ builder_name' = name
    /\ last_call' = Call("from_yaml", [k \in 1..Len(data) |-> data[k].type],
                         [k \in 1..Len(data) |-> StepDataId(data[k])],
                         AddEach(builder_steps, data).raised, "")
    /\ built' = (built \/ ~AddEach(builder_steps, data).raised)
    /\ UNCHANGED <<loaded, vars, callVars, iterVars>>

\* workflow.export() written to a file, and ChainBuilder().from_yaml(path)
\* of that file on a new builder
ExportLoad ==
    /\ built
    /\ loaded' = [done |-> TRUE,
                  original |-> WorkflowSteps,
                  outcome |-> from_yaml(<<>>, "None",
                                        safe_load(export(builder_name, WorkflowSteps)))]
    /\ last_call' = Call("export", <<>>, <<>>, FALSE, "")
    /\ UNCHANGED <<builder_steps, builder_name, built, vars, callVars, iterVars>>

BuilderNext ==
    \/ \E a \in AddStepCalls : AddStep(a)
    \/ \E name \in BuildNames : Build(name)
    \/ \E name \in YamlNames : \E data \in YamlSteps(MaxSteps) : FromYaml(name, data)
    \/ ExportLoad

BuilderSpec == BuilderInit /\ [][BuilderNext]_<<vars, callVars, builderVars, iterVars>>

(* -------------------- the PromptIterator on its own --------------------- *)

\* largest max_iterations a PromptIterator is constructed with
MaxIters == 3

\* the quality scores _quick_quality_score gives, in tenths
Qualities == {50, 55, 60}

\* the severities of the weaknesses _analyze_weaknesses returns: those of
\* _mock_weaknesses, three minor ones, and the empty list of a reply "[]"
Weaknesses == {<<6, 5, 4>>, <<3, 3, 3>>, <<>>}

RECURSIVE SumSeq(_)
SumSeq(q) == IF q = <<>> THEN 0 ELSE Head(q) + SumSeq(Tail(q))

\* a stop test without the test on the number of iterations
_should_stop_early(weaknesses, its) ==
    IF weaknesses = <<>> THEN [raised |-> TRUE, stop |-> FALSE]
    ELSE [raised |-> FALSE,
          stop |-> \/ SumSeq(weaknesses) < 4 * Len(weaknesses)
                   \/ Len(its) < 2
                   \/ its[Len(its)].quality_score - its[Len(its) - 1].quality_score < 3]

\* PromptIterator._should_stop(weaknesses, iterations): the average of an
\* empty list raises ZeroDivisionError
_should_stop(weaknesses, its) ==
    IF Len(its) < 2 THEN [raised |-> FALSE, stop |-> FALSE]
    ELSE IF weaknesses = <<>> THEN [raised |-> TRUE, stop |-> FALSE]
    ELSE [raised |-> FALSE,
          stop |-> \/ SumSeq(weaknesses) < 4 * Len(weaknesses)
                   \/ its[Len(its)].quality_score - its[Len(its) - 1].quality_score < 3]

\* one entry of iterations
Iteration(k, weaknesses, quality_score) ==
    [iteration |-> k, weaknesses |-> weaknesses, quality_score |-> quality_score]

IterInit ==
    /\ NoIteration
    /\ NoRun
    /\ NoCall
    /\ NoBuilder

\* PromptIterator(max_iterations=max).iterate(...): iteration 0 is recorded
Iterate(max, q) ==
    /\ it_pc = "idle"
    /\ it_max' = max
    /\ iterations' = <<Iteration(0, <<>>, q)>>
    /\ it_i' = 1
    /\ it_pc' = "loop"
    /\ UNCHANGED <<it_result, vars, callVars, builderVars>>

\* one cycle of for i in range(1, self.max_iterations + 1) that is recorded
CycleRecord(w, q) ==
    /\ it_pc = "loop"
    /\ it_i <= it_max
    /\ ~_should_stop(w, iterations).raised
    /\ ~_should_stop(w, iterations).stop
    /\ iterations' = Append(iterations, Iteration(it_i, w, q))
    /\ it_i' = it_i + 1
    /\ UNCHANGED <<it_max, it_pc, it_result, vars, callVars, builderVars>>

\* one cycle in which _should_stop is true: break
CycleStop(w) ==
    /\ it_pc = "loop"
    /\ it_i <= it_max
    /\ ~_should_stop(w, iterations).raised
    /\ _should_stop(w, iterations).stop
    /\ it_pc' = "break"
    /\ UNCHANGED <<it_max, iterations, it_i, it_result, vars, callVars, builderVars>>

\* one cycle in which _should_stop raises
CycleRaise(w) ==
    /\ it_pc = "loop"
    /\ it_i <= it_max
    /\ _should_stop(w, iterations).raised
    /\ it_pc' = "raised"
    /\ UNCHANGED <<it_max, iterations, it_i, it_result, vars, callVars, builderVars>>

\* the end of iterate: the range is exhausted or the loop was left by break
IterReturn ==
    /\ \/ it_pc = "loop" /\ it_i > it_max
       \/ it_pc = "break"
    /\ it_result' = [total_iterations |-> Len(iterations) - 1,
                     initial_quality |-> iterations[1].quality_score,
                     final_quality |-> iterations[Len(iterations)].quality_score]
    /\ it_pc' = "returned"
    /\ UNCHANGED <<it_max, iterations, it_i, vars, callVars, builderVars>>

\* one cycle, whichever way it ends
Cycle ==
    \/ \E w \in Weaknesses : \E q \in Qualities : CycleRecord(w, q)
    \/ \E w \in Weaknesses : CycleStop(w)
    \/ \E w \in Weaknesses : CycleRaise(w)

IterNext ==
    \/ \E max \in 0..MaxIters : \E q \in Qualities : Iterate(max, q)
    \/ \E w \in Weaknesses : \E q \in Qualities : CycleRecord(w, q)
    \/ \E w \in Weaknesses : CycleStop(w)
    \/ \E w \in Weaknesses : CycleRaise(w)
    \/ IterReturn

\* one call of iterate in which every call the loop makes returns
IteratorSpec ==
    /\ IterInit
    /\ [][IterNext]_<<vars, callVars, builderVars, iterVars>>
    /\ WF_iterVars(Cycle)
    /\ WF_iterVars(IterReturn)

(* ------------------------------ claims --------------------------------- *)

\* the entries this run appended to the log
RunLog == SubSeq(execution_log, logBase + 1, Len(execution_log))

\* the number of steps of this run whose execute returned
Returned_n == Len(attempted) - (IF stopped = "error" THEN 1 ELSE 0)

\* C1: when the security_scan step at position i returned an output that is
\* not safe, the log has exactly i entries (positions from 1) and no id of a
\* later step is a key of the context.
C1_SafetyHalt ==
    stopped = "halt" =>
        /\ Len(execution_log) = i
        /\ \A j \in (i + 1)..Len(steps) : steps[j].id \notin DOMAIN context

\* C2: when execute of the step at position i raised, the last log entry is
\* the 'error' entry of that step, the run has left the loop, and the
\* positions attempted are 1..i, each once: no later step, no retry.
C2_FailStop ==
    stopped = "error" =>
        /\ pc \in {"break", "returned"}
        /\ attempted = [k \in 1..i |-> k]
        /\ Len(RunLog) = i
        /\ RunLog[i].status = "error"
        /\ RunLog[i].step_id = steps[i].id
        /\ \A k \in 1..(i - 1) : RunLog[k].status = "success"

C2_Witness ==
    /\ pc = "returned"
    /\ stopped = "error"
    /\ i < Len(steps)

\* C3: the report of a run that stopped on a security_scan output that is
\* not safe carries the status HALTED.
C3_HaltedStatus ==
    (pc = "returned" /\ stopped = "halt") => report.status \in {"HALTED", "halted"}

\* C4: the report of a run in which a step's execute raised carries the
\* status FAILED.
C4_FailedStatus ==
    (pc = "returned" /\ stopped = "error") => report.status \in {"FAILED", "failed"}

\* C5: a report carries COMPLETED only if the run did not stop early: every
\* step was attempted and every entry of the run is a 'success' entry.
C5_CompletedOnlyAtEnd ==
    (pc = "returned" /\ report.status \in {"COMPLETED", "completed"}) =>
        /\ stopped = ""
        /\ Len(attempted) = Len(steps)
        /\ \A k \in 1..Len(RunLog) : RunLog[k].status = "success"

\* the entries this run wrote are, in order, one per step attempted: the k-th
\* names the k-th step of the list
C6_EntryPerAttempt ==
    /\ Len(RunLog) = Len(attempted)
    /\ \A k \in 1..Len(attempted) :
        /\ attempted[k] = k
        /\ RunLog[k].step_id = steps[k].id
        /\ RunLog[k].step_type = steps[k].type

\* C6: at every point the entries this run wrote are one per step attempted,
\* in the order of the attempts, and every step of the program leaves the
\* entries already in the log as they are (none changed, none removed).
C6_LogPerAttempt ==
    /\ []C6_EntryPerAttempt
    /\ [][/\ Len(execution_log') >= Len(execution_log)
          /\ SubSeq(execution_log', 1, Len(execution_log)) = execution_log]_vars

C6_Witness ==
    /\ runs = 2
    /\ Len(RunLog) = 2
    /\ RunLog[1].status = "success"
    /\ RunLog[2].status = "error"
    /\ logBase > 0

\* C7: the report of every run, a second one included, holds the log and
\* the context of that run alone, and steps_executed is the number of steps
\* that run attempted.
C7_FreshPerRun ==
    pc = "returned" =>
        /\ report.log = RunLog
        /\ report.steps_executed = Len(attempted)
        /\ DOMAIN report.context \subseteq
               {"inputs"} \cup {steps[attempted[k]].id : k \in 1..Len(attempted)}

\* C8, as the specification states it: from the start of a run the context holds 'inputs' and one
\* more key for each step attempted, returned or raised.
C8_KeyPerAttempt ==
    runs >= 1 =>
        /\ "inputs" \in DOMAIN context
        /\ Cardinality(DOMAIN context) = 1 + Len(attempted)

\* the keys of the context are 'inputs' and the ids of the steps that returned
C8_KeysInv ==
    runs >= 1 =>
        DOMAIN context = {"inputs"} \cup {steps[attempted[k]].id : k \in 1..Returned_n}

\* C8, amended: from the start of a run the keys of the context are 'inputs'
\* and the ids of the steps whose execute returned; a step that raised adds
\* none; and within a run no key is lost.
C8_KeysOfReturnedSteps ==
    /\ []C8_KeysInv
    /\ [][runs' = runs => DOMAIN context \subseteq DOMAIN context']_vars

C8_Witness ==
    /\ pc = "returned"
    /\ stopped = "error"
    /\ Len(attempted) = 2
    /\ DOMAIN context = {"inputs", steps[1].id}

\* C9: when the step at position i is about to execute, the steps before it
\* were attempted in order, the context holds 'inputs' and the output each of
\* them produced, and a config entry {{<earlier id>.<key>}} of the step
\* resolves to the text of the value that earlier step produced; a score of
\* 8.0 against min_score 7.0 gives passed.
C9_SeesPredecessors ==
    (pc = "loop" /\ i <= Len(steps)) =>
        /\ attempted = [k \in 1..(i - 1) |-> k]
        /\ "inputs" \in DOMAIN context
        /\ \A j \in 1..(i - 1) :
            /\ steps[j].id \in DOMAIN context
            /\ context[steps[j].id] = RunLog[j].output
            /\ (steps[j].type = "quality_score" /\ RunLog[j].output.m.total_score.n = 80
                  /\ steps[j].config.min_score.n = 70)
               => Truthy(RunLog[j].output.m.passed)
            /\ \A key \in DOMAIN steps[i].config :
               \A k \in DOMAIN RunLog[j].output.m :
                   steps[i].config[key] = Ref(steps[j].id, k) =>
                       _resolve_variable(steps[i].config[key], context)
                         = [raised |-> FALSE, val |-> StrVal(Str(RunLog[j].output.m[k]))]

\* C10: an exception a step raises never leaves run(): the handler catches
\* it, the run goes on to its return, and the report holds the context and
\* the log as they are at that point.
C10_NoEscape ==
    /\ pc # "propagated"
    /\ (stopped = "error" /\ pc # "returned") => (pc = "break" /\ ENABLED Return)
    /\ pc = "returned" =>
        /\ report.context = context
        /\ report.log = execution_log
        /\ report.steps_executed = Len(execution_log)

C10_Witness ==
    /\ pc = "returned"
    /\ stopped = "error"
    /\ Len(RunLog) = 2
    /\ report.log[Len(report.log)].status = "error"
    /\ Cardinality(DOMAIN report.context) = 2

\* C19: a Conditional step that returned never ends or redirects the loop:
\* whatever condition_met and branch are, the run goes on in the loop at the
\* next position, and the loop executes the step at each position it is at,
\* so that the steps attempted are the positions 1, 2, ... in list order.
C19_ReportingOnly ==
    /\ [](\A k \in 1..Len(attempted) : attempted[k] = k)
    /\ [][(pc = "loop" /\ i <= Len(steps)) => attempted' = Append(attempted, i)]_vars
    /\ [][(/\ pc = "loop"
           /\ i <= Len(steps)
           /\ steps[i].type = "conditional"
           /\ Len(execution_log') = Len(execution_log) + 1
           /\ execution_log'[Len(execution_log')].status = "success")
          => (pc' = "loop" /\ i' = i + 1 /\ steps' = steps)]_vars

C19_Witness ==
    /\ Len(steps) = 2
    /\ Len(attempted) = 2
    /\ Len(RunLog) = 2
    /\ steps[1].type = "conditional"
    /\ RunLog[1].status = "success"
    /\ RunLog[1].output.m.condition_met = BoolVal(FALSE)
    /\ RunLog[1].output.m.branch = StrVal(<<"halt">>)
    /\ steps[2].type = "conditional"
    /\ RunLog[2].status = "success"
    /\ RunLog[2].output.m.condition_met = BoolVal(TRUE)
    /\ RunLog[2].output.m.branch = StrVal(<<"proceed">>)

\* C25: every entry of the log, an entry with status 'error' too, carries
\* the duration of the step.
C25_DurationEverywhere ==
    \A k \in 1..Len(execution_log) : "duration" \in DOMAIN execution_log[k]

\* C26: the Iterate step passes the resolved value of 'topic' to the
\* refinement collaborator: whenever the run is about to execute an Iterate
\* step whose 'topic' the resolver resolves, the topic the step passes is
\* the resolved text.
C26_TopicResolved ==
    (/\ pc = "loop"
     /\ i <= Len(steps)
     /\ steps[i].type = "dna_iterate"
     /\ "topic" \in DOMAIN steps[i].config
     /\ ~_resolve_variable(steps[i].config.topic, context).raised)
    => IterateArgs(steps[i], context).topic =
           _resolve_variable(steps[i].config.topic, context).val

\* a Harvest step is next and its url resolves
HarvestNext ==
    /\ pc = "loop"
    /\ i <= Len(steps)
    /\ steps[i].type = "harvest_web"
    /\ ~_resolve_variable(ConfigGet(steps[i], "url", NoneVal), context).raised

\* the last entry of the log
LastEntry == execution_log[Len(execution_log)]

\* C29: a Harvest step whose collaborator returns success false is a step
\* that returned: execute gives the output with success false and empty
\* content, the loop is not left for it, the output is written under the
\* step id with a 'success' entry in the log and the run goes on at the next
\* position.  A run leaves the loop early only after an entry with status
\* 'error' or after a security_scan whose output is not safe.
C29_FailedHarvestGoesOn ==
    /\ [](HarvestNext =>
            \A result \in extract_from_web(
                    _resolve_variable(ConfigGet(steps[i], "url", NoneVal), context).val) :
                ~Truthy(result.success) =>
                    /\ Returned(HarvestOutput(result)) \in execute(steps[i], context)
                    /\ HarvestOutput(result).m.content = StrVal(<<>>)
                    /\ ~HaltCondition(steps[i], HarvestOutput(result)))
    /\ [][(/\ HarvestNext
           /\ Len(execution_log') = Len(execution_log) + 1
           /\ execution_log'[Len(execution_log')].status = "success")
          => (/\ pc' = "loop"
              /\ i' = i + 1
              /\ steps[i].id \in DOMAIN context'
              /\ context'[steps[i].id] = execution_log'[Len(execution_log')].output)]_vars
    /\ []((pc = "break" \/ (pc = "returned" /\ Len(attempted) < Len(steps)))
           => (/\ Len(execution_log) > logBase
               /\ \/ LastEntry.status = "error"
                  \/ /\ LastEntry.status = "success"
                     /\ LastEntry.step_type = "security_scan"
                     /\ ~Truthy(DictGet(LastEntry.output.m, "safe", NoneVal))))

C29_Witness ==
    /\ attempted = <<1, 2>>
    /\ steps[1].type = "harvest_web"
    /\ ~Truthy(context[steps[1].id].m.success)
    /\ context[steps[1].id].m.content = StrVal(<<>>)
    /\ execution_log[logBase + 1].status = "success"
    /\ execution_log[logBase + 2].status = "success"
    /\ pc = "returned"

\* C28: every run ends: once run() is in its loop it comes to return its
\* report (or to let an exception out); on the way it attempts the steps in
\* rising positions, so each step at most once and at most len(steps) of
\* them, and the position of the loop never goes back.
C28_RunTerminates ==
    /\ (pc = "loop") ~> (pc \in {"returned", "propagated"})
    /\ [](/\ Len(attempted) <= Len(steps)
          /\ \A j, k \in 1..Len(attempted) : j < k => attempted[j] < attempted[k])
    /\ [][pc = "loop" => (i' >= i /\ pc' # "idle")]_vars

C28_Witness ==
    /\ pc = "returned"
    /\ runs = 2
    /\ Len(steps) = 2
    /\ attempted = <<1, 2>>
    /\ stopped = ""

(* ----------------------- claims on the resolvers ------------------------ *)

\* the walk of a path as the specification words it: "ok" with the value
\* at its end, "missing" when a segment is no key of the mapping reached so
\* far, "nonmapping" when a value that is no mapping is met before the end
RECURSIVE PathWalk(_, _)
PathWalk(v, path) ==
    IF path = <<>> THEN [status |-> "ok", val |-> v]
    ELSE IF v.ty # "dict" THEN [status |-> "nonmapping", val |-> v]
    ELSE IF Head(path) \notin DOMAIN v.m THEN [status |-> "missing", val |-> v]
    ELSE PathWalk(v.m[Head(path)], Tail(path))

PieceStatus(p) ==
    IF p.kind = "plain" THEN "plain" ELSE PathWalk(DictVal(call_ctx), p.path).status

\* the first call was made, on a text of well-formed references and of
\* pieces without braces
WellFormedCall ==
    /\ out.fn # "none"
    /\ out.passes = 1
    /\ arg.ty = "str"
    /\ \A k \in 1..Len(pieces) :
           pieces[k].kind = "ref" \/ pieces[k].s \in {<<"x">>, <<" ">>}

\* sub occurs in text, symbol for symbol
Occurs(sub, text) ==
    \E j \in 0..(Len(text) - Len(sub)) : SubSeq(text, j + 1, j + Len(sub)) = sub

\* C11: in both resolvers, a call on a text that holds a reference with a
\* segment that is no key of the mapping reached so far does not raise, and
\* its result holds that reference verbatim, delimiters included.
C11_MissingKeyKept ==
    WellFormedCall =>
        \A k \in 1..Len(pieces) :
            PieceStatus(pieces[k]) = "missing" =>
                /\ ~out.raised
                /\ Occurs(PieceText(pieces[k]), out.val.s)

\* C12: a call of the steps' _resolve_variable on a text that holds a
\* reference whose walk meets a value that is no mapping before the path
\* ends does not raise, and its result holds that reference verbatim.
C12_NonMappingKept ==
    (WellFormedCall /\ out.fn = "_resolve_variable") =>
        \A k \in 1..Len(pieces) :
            PieceStatus(pieces[k]) = "nonmapping" =>
                /\ ~out.raised
                /\ Occurs(PieceText(pieces[k]), out.val.s)

\* the text with every reference replaced by the text of the value its path
\* ends at
RECURSIVE ValueText(_)
ValueText(ps) ==
    IF ps = <<>> THEN <<>>
    ELSE (IF Head(ps).kind = "plain" THEN Head(ps).s
          ELSE Str(PathWalk(DictVal(call_ctx), Head(ps).path).val))
         \o ValueText(Tail(ps))

\* C13: when the path of every reference of the text can be walked to its
\* end, the result is the text with each reference replaced by the text of
\* the value found, whatever that value is (0, False, '' and {} included).
C13_ValueReplaces ==
    (WellFormedCall /\ \A k \in 1..Len(pieces) : PieceStatus(pieces[k]) \in {"ok", "plain"}) =>
        /\ ~out.raised
        /\ out.val.s = ValueText(pieces)

\* what the function called makes of one piece passed alone
Alone(p) ==
    IF p.kind = "plain" THEN p.s
    ELSE IF out.fn = "resolve" THEN resolve(StrVal(PieceText(p)), call_ctx).s
    ELSE _resolve_variable(StrVal(PieceText(p)), call_ctx).val.s

RECURSIVE EachAlone(_)
EachAlone(ps) == IF ps = <<>> THEN <<>> ELSE Alone(Head(ps)) \o EachAlone(Tail(ps))

\* C14: a call on a text of N well-formed references returns, left to right,
\* what each reference gives alone with the text between them unchanged: no
\* reference changes, or loses, the substitution of another.
C14_Independent ==
    WellFormedCall =>
        /\ ~out.raised
        /\ out.val.s = EachAlone(pieces)

\* the text holds a "{{" with a "}}" after it
HasReference(v) ==
    /\ v.ty = "str"
    /\ \E p \in 1..Len(v.s) : \E q \in (p + 1)..Len(v.s) :
           v.s[p] = "{{" /\ v.s[q] = "}}"

\* C15: a call on a text that holds no reference returns that text: a first
\* pass over such a text, and a second pass over a result that is such a
\* text, change nothing.
C15_Idempotent ==
    (out.fn # "none" /\ ~HasReference(arg)) =>
        /\ ~out.raised
        /\ out.val = arg

C15_Witness ==
    /\ out.fn = "resolve"
    /\ out.passes = 2
    /\ Len(pieces) = MaxPieces
    /\ pieces[1] = PlainPiece(<<" ">>)
    /\ pieces[2].kind = "ref"
    /\ ~HasReference(arg)
    /\ out.val = arg

(* -------------------- claims on the Conditional step -------------------- *)

\* the operators of the grammar "{{<path>}} <op> <literal>"
GrammarOps == {<<">">>, <<"<">>, <<">", "=">>, <<"<", "=">>, <<"=", "=">>, <<"!", "=">>}

\* n op k on numbers
NumberOp(op, n, k) ==
    CASE op = <<">">> -> n > k
      [] op = <<"<">> -> n < k
      [] op = <<">", "=">> -> n >= k
      [] op = <<"<", "=">> -> n <= k
      [] op = <<"=", "=">> -> n = k
      [] op = <<"!", "=">> -> n # k

\* execute was called on a condition "{{path}} op literal" with an operator
\* of the grammar, a numeric literal and a path that ends at a number
NumericCondition ==
    /\ out.fn = "execute"
    /\ pieces[1].braces
    /\ pieces[1].sep = <<" ">>
    /\ pieces[1].op \in GrammarOps
    /\ pieces[1].lit.n >= 0
    /\ PathWalk(DictVal(call_ctx), pieces[1].path).status = "ok"
    /\ PathWalk(DictVal(call_ctx), pieces[1].path).val.ty \in {"int", "float"}

\* C16: for a condition "{{path}} op k" with op one of the six operators, k
\* a numeric literal and the path ending at a number n, execute returns
\* condition_met = (n op k): {a: {b: 85}} and "{{a.b}} > 80" give true.
C16_NumericComparison ==
    NumericCondition =>
        /\ ~out.raised
        /\ out.val.m.condition_met
             = BoolVal(NumberOp(pieces[1].op,
                                PathWalk(DictVal(call_ctx), pieces[1].path).val.n,
                                pieces[1].lit.n))

\* the condition is outside the grammar: the path has no braces, the
\* operator is none of the six, or something that is no blank stands
\* between the parts
OutsideGrammar(p) ==
    \/ ~p.braces
    \/ p.op \notin GrammarOps
    \/ p.sep = <<"\\">>

\* C17: for a condition string outside the grammar, execute does not raise
\* and returns condition_met = false.
C17_MalformedIsFalse ==
    (out.fn = "execute" /\ OutsideGrammar(pieces[1])) =>
        /\ ~out.raised
        /\ out.val.m.condition_met = BoolVal(FALSE)

\* C18: in the dict execute returns, branch is the label configured as
\* if_true when condition_met is true and the label configured as if_false
\* when it is false (None for a label that is not configured).
C18_BranchLabel ==
    (out.fn = "execute" /\ ~out.raised) =>
        /\ out.val.m.condition_met \in {BoolVal(TRUE), BoolVal(FALSE)}
        /\ out.val.m.branch =
             IF out.val.m.condition_met = BoolVal(TRUE)
             THEN DictGet(arg.config, "if_true", NoneVal)
             ELSE DictGet(arg.config, "if_false", NoneVal)

C18_Witness ==
    /\ out.fn = "execute"
    /\ ~out.raised
    /\ out.val.m.condition_met = BoolVal(TRUE)
    /\ out.val.m.branch = StrVal(<<"proceed">>)
    /\ "if_false" \in DOMAIN arg.config

(* ---------------------- claims on the ChainBuilder ---------------------- *)

\* the five registered kinds, by the names the builder knows them under
FiveKinds == {"harvest_web", "dna_iterate", "quality_score", "security_scan",
              "conditional"}

\* the types asked for before the first one that is no registered kind
RECURSIVE KnownPrefix(_)
KnownPrefix(types) ==
    IF types = <<>> \/ Head(types) \notin FiveKinds THEN <<>>
    ELSE <<Head(types)>> \o KnownPrefix(Tail(types))

\* add_step and from_yaml raise exactly when a type asked for is no
\* registered kind; every step a builder holds, and so every step of a
\* Workflow it built, has a registered kind and is a list Spec starts from
C20_TypesInv ==
    /\ last_call.op \in {"add_step", "from_yaml"} =>
           (last_call.raised <=> \E k \in 1..Len(last_call.types) :
                                     last_call.types[k] \notin FiveKinds)
    /\ \A k \in 1..Len(builder_steps) : builder_steps[k].type \in FiveKinds
    /\ builder_steps \in BuiltStepLists

\* C20: a type outside the five registered kinds is rejected by add_step,
\* and by from_yaml through it, when the step is added: the call raises, the
\* step is not added (from_yaml has added only the steps before it and
\* builds no Workflow), and every step of a built Workflow has a registered
\* kind, so that no run meets an unknown type.
C20_UnknownTypeRejected ==
    /\ []C20_TypesInv
    /\ [][(last_call'.op = "add_step" /\ last_call'.raised)
          => (builder_steps' = builder_steps /\ built' = built)]_builderVars
    /\ [][(last_call'.op = "from_yaml" /\ last_call'.raised)
          => (/\ built' = built
              /\ Len(builder_steps') = Len(builder_steps) + Len(KnownPrefix(last_call'.types))
              /\ SubSeq(builder_steps', 1, Len(builder_steps)) = builder_steps
              /\ \A k \in 1..Len(KnownPrefix(last_call'.types)) :
                     builder_steps'[Len(builder_steps) + k].type = last_call'.types[k])]_builderVars

C20_Witness ==
    /\ last_call.op = "from_yaml"
    /\ last_call.raised
    /\ last_call.types = <<"harvest_web", "llm_call">>
    /\ Len(builder_steps) = 1
    /\ builder_steps[1].type = "harvest_web"
    /\ ~built

\* C21: an add_step call without an explicit id, on a builder that holds n
\* steps, returns the id "{type}_{n}" and appends one step of that id and
\* type after the n steps, which stay as they are; two unnamed harvest_web
\* steps on a new builder get harvest_web_0 and harvest_web_1.
C21_DefaultIds ==
    [][(/\ last_call'.op = "add_step"
        /\ ~last_call'.raised
        /\ last_call'.ids = <<"">>)
       => (/\ last_call'.returned =
                  last_call'.types[1] \o "_" \o ToString(Len(builder_steps))
           /\ Len(builder_steps') = Len(builder_steps) + 1
           /\ SubSeq(builder_steps', 1, Len(builder_steps)) = builder_steps
           /\ builder_steps'[Len(builder_steps')].id = last_call'.returned
           /\ builder_steps'[Len(builder_steps')].type = last_call'.types[1])]_builderVars

C21_Witness ==
    /\ last_call.op = "add_step"
    /\ last_call.ids = <<"">>
    /\ last_call.returned = "harvest_web_1"
    /\ Len(builder_steps) = 2
    /\ builder_steps[1].id = "harvest_web_0"
    /\ builder_steps[2].id = "harvest_web_1"
    /\ builder_steps[1].type = "harvest_web"
    /\ builder_steps[2].type = "harvest_web"

\* C22: the ids of the steps a builder has accumulated, by add_step calls
\* with explicit and with default ids, are pairwise distinct.
C22_UniqueIds ==
    \A j, k \in 1..Len(builder_steps) :
        j # k => builder_steps[j].id # builder_steps[k].id

\* C23: the Workflow a new builder loads from the exported document of a
\* built Workflow has the step list of the original: the load does not
\* raise, and the types, configs and ids are the same, in the same order.
C23_RoundTrip ==
    loaded.done =>
        /\ ~loaded.outcome.raised
        /\ loaded.outcome.steps = loaded.original

C23_Witness ==
    /\ loaded.done
    /\ Len(loaded.original) = 2
    /\ loaded.original[1].id = "scan"
    /\ loaded.original[2].type = "conditional"
    /\ loaded.original[2].id = "conditional_1"
    /\ loaded.outcome.steps = loaded.original

\* C24: once build() has returned, no call on the builder changes the step
\* list of the Workflow it returned.
C24_BuiltImmutable ==
    [][built => WorkflowSteps' = WorkflowSteps]_builderVars

\* C30: from_yaml sets the name of the file on the builder and adds the
\* steps of the file after the steps the builder holds, one by one: when the
\* k-th record has an unknown type the call raises with the k-1 records
\* before it added, the name set and no Workflow built by the call; when
\* every type is registered all records are added and the Workflow is built.
C30_LoadNotAtomic ==
    [][last_call'.op = "from_yaml"
       => (/\ builder_name' \in YamlNames
           /\ SubSeq(builder_steps', 1, Len(builder_steps)) = builder_steps
           /\ Len(builder_steps') =
                  Len(builder_steps) + Len(KnownPrefix(last_call'.types))
           /\ \A k \in 1..Len(KnownPrefix(last_call'.types)) :
                  /\ builder_steps'[Len(builder_steps) + k].type = last_call'.types[k]
                  /\ last_call'.ids[k] # "" =>
                         builder_steps'[Len(builder_steps) + k].id = last_call'.ids[k]
           /\ last_call'.raised <=>
                  Len(KnownPrefix(last_call'.types)) < Len(last_call'.types)
           /\ built' = (built \/ ~last_call'.raised))]_builderVars

C30_Witness ==
    /\ last_call.op = "from_yaml"
    /\ last_call.raised
    /\ last_call.types = <<"harvest_web", "llm_call">>
    /\ Len(builder_steps) = 2
    /\ builder_steps[1].id = "scan"
    /\ builder_steps[2].id = "harvest_web_1"
    /\ builder_name = "doc"
    /\ ~built

(* --------------------- claims on the PromptIterator --------------------- *)

\* C27: for every max_iterations >= 0 a call of iterate ends, by returning
\* or by an exception of the stop test; it records at most max_iterations
\* cycles, the loop variable rises by one with each and never passes
\* max_iterations + 1, and total_iterations of the result is the number of
\* cycles recorded, at most max_iterations.  The loop is never left by the
\* stop test before the first cycle is recorded: with max_iterations >= 1 a
\* result has total_iterations >= 1.
C27_IterateBounded ==
    /\ (it_pc = "loop") ~> (it_pc \in {"returned", "raised"})
    /\ [](it_pc # "idle" =>
            /\ Len(iterations) - 1 <= it_max
            /\ it_i = Len(iterations)
            /\ it_i <= it_max + 1)
    /\ [](it_pc = "returned" =>
            /\ it_result.total_iterations = Len(iterations) - 1
            /\ it_result.total_iterations <= it_max
            /\ it_max >= 1 => it_result.total_iterations >= 1)
    /\ [][(it_pc = "loop" /\ it_pc' \in {"break", "raised"})
          => Len(iterations) >= 2]_iterVars

C27_Witness ==
    /\ it_pc = "returned"
    /\ it_max = 3
    /\ it_result.total_iterations = 2
    /\ iterations[3].quality_score - iterations[2].quality_score < 3

====
